---- MODULE Spec2Model ----
(***************************************************************************)
(* finwise-python: the resilient request transport (HTTPTransport.request, *)
(* src/src/finwise/_http.py) with the failure classification of            *)
(* src/src/finwise/exceptions.py and the configuration of                  *)
(* src/src/finwise/_config.py.                                             *)
(*                                                                         *)
(* One behaviour is one logical call to request on a transport built from  *)
(* a valid configuration.  The network (httpx.Client.request) is the       *)
(* environment: every attempt draws its result (a response with a status,  *)
(* an optional Retry-After header and a body, or a transport exception)    *)
(* from small sets.  trace records, in order, every network attempt and    *)
(* every call of time.sleep the call makes.                                *)
(*                                                                         *)
(* ClassifySpec and ConfigSpec call raise_for_status and the constructors  *)
(* of ClientConfig and FinWise directly.  ResourceSpec is one operation of *)
(* a resource (src/src/finwise/resources) down to the transport and back.  *)
(* ConcurrentSpec is two threads calling request on one transport.         *)
(***************************************************************************)
EXTENDS Integers, Sequences, FiniteSets, TLC

\* ------------------------------------------------------------------ bounds

\* The largest retry budget (ClientConfig.max_retries) the model explores.
MaxRetriesBound == 2

\* The largest number of close() calls the model explores.
MaxCloses == 2

\* The largest retry budget explored under the resource operations.
ResourceMaxRetries == 1

\* The largest retry budget explored with concurrent calls.
ConcurrentMaxRetries == 1

\* ------------------------------------------------------- optional values

\* Python's None, and a present value, for Optional[...] attributes.
None == <<>>
Some(x) == <<x>>

Min(a, b) == IF a <= b THEN a ELSE b

\* -------------------------------------------------------------- documents

\* A parsed JSON value: a key-value document (dict) or, malformed for this
\* API, a JSON array.
Dict(f) == [t |-> "dict", v |-> f]
List(s) == [t |-> "list", v |-> s]
NoDoc == [t |-> "none", v |-> <<>>]
EmptyDict == Dict([k \in {} |-> ""])

\* dict.get(key): Some(value), or None when the key is absent.
Get(d, k) == IF k \in DOMAIN d.v THEN Some(d.v[k]) ELSE None

\* dict.get(key, default)
GetOr(d, k, default) == IF k \in DOMAIN d.v THEN d.v[k] ELSE default

\* Response bodies (response.content) the server can send: no content, an
\* empty document, an error document with the conventional fields, a JSON
\* array, and bytes that are not JSON.
ContentEmpty == ""
ContentEmptyDict == "{}"
ContentError == "{message:Not found,code:E404}"
ContentArray == "[1]"
ContentHtml == "<html>"
Contents == {ContentEmpty, ContentEmptyDict, ContentError, ContentArray, ContentHtml}

\* Account documents of the API: a whole one and one that lacks required
\* fields.
AccountDoc(id, name) ==
    Dict([id |-> id, userId |-> "user_1", name |-> name, type |-> "depository",
          subType |-> "savings", createdAt |-> "2024-01-01T00:00:00Z",
          updatedAt |-> "2024-01-15T12:30:00Z"])
BrokenAccountDoc == Dict([id |-> "acc_3", name |-> "Broken"])

\* A page of a list endpoint with the items `data`.
PageDoc(data, pageNumber, pageSize, totalCount, totalPages, hasNext, hasPrevious) ==
    Dict([data |-> data, pageNumber |-> pageNumber, pageSize |-> pageSize,
          totalCount |-> totalCount, totalPages |-> totalPages,
          hasNext |-> hasNext, hasPrevious |-> hasPrevious])

\* Response bodies of the resource endpoints: one account, a page of two
\* accounts, an empty page, a page with a broken item, and a raw list of
\* two accounts.
ContentAccount == "{id:acc_1,...}"
ContentPage == "{data:[{id:acc_1,...},{id:acc_2,...}],pageNumber:2,pageSize:50,...}"
ContentEmptyPage == "{data:[],pageNumber:1,pageSize:100,...}"
ContentBrokenPage == "{data:[{id:acc_3,name:Broken}],pageNumber:1,pageSize:100,...}"
ContentRawList == "[{id:acc_1,...},{id:acc_2,...}]"
ResourceContents ==
    {ContentAccount, ContentPage, ContentEmptyPage, ContentBrokenPage, ContentRawList}

\* response.json(): the parsed value, or json.JSONDecodeError.
JsonOk(c) == c \in {ContentEmptyDict, ContentError, ContentArray} \cup ResourceContents

Json(c) ==
    CASE c = ContentEmptyDict -> EmptyDict
      [] c = ContentError -> Dict([message |-> "Not found", code |-> "E404"])
      [] c = ContentArray -> List(<<1>>)
      [] c = ContentAccount -> AccountDoc("acc_1", "Savings")
      [] c = ContentPage ->
            PageDoc(<<AccountDoc("acc_1", "Savings"), AccountDoc("acc_2", "Checking")>>,
                    2, 50, 52, 2, FALSE, TRUE)
      [] c = ContentEmptyPage -> PageDoc(<<>>, 1, 100, 0, 0, FALSE, FALSE)
      [] c = ContentBrokenPage -> PageDoc(<<BrokenAccountDoc>>, 1, 100, 1, 1, FALSE, FALSE)
      [] c = ContentRawList ->
            List(<<AccountDoc("acc_1", "Savings"), AccountDoc("acc_2", "Checking")>>)
      [] OTHER -> NoDoc

\* ---------------------------------------------------------------- headers

\* A header value is a sequence of characters.
DigitVal ==
    [c \in {"0", "1", "2", "3", "4", "5", "6", "7", "8", "9"} |->
        CASE c = "0" -> 0 [] c = "1" -> 1 [] c = "2" -> 2 [] c = "3" -> 3
          [] c = "4" -> 4 [] c = "5" -> 5 [] c = "6" -> 6 [] c = "7" -> 7
          [] c = "8" -> 8 [] c = "9" -> 9]

AllDigits(s) == Len(s) > 0 /\ \A i \in 1..Len(s) : s[i] \in DOMAIN DigitVal

RECURSIVE DigitsValue(_)
DigitsValue(s) ==
    IF s = <<>> THEN 0
    ELSE 10 * DigitsValue(SubSeq(s, 1, Len(s) - 1)) + DigitVal[s[Len(s)]]

\* int(str): an optional sign followed by decimal digits; anything else is
\* a ValueError.
IntOk(s) ==
    IF Len(s) > 0 /\ s[1] \in {"-", "+"} THEN AllDigits(Tail(s)) ELSE AllDigits(s)

IntValue(s) ==
    IF s[1] = "-" THEN 0 - DigitsValue(Tail(s))
    ELSE IF s[1] = "+" THEN DigitsValue(Tail(s))
    ELSE DigitsValue(s)

\* Retry-After header values the server can send with a 429; None is a
\* response without the header.
RetryAfterHeaders ==
    {None, Some(<<"0">>), Some(<<"2">>), Some(<<"1", "0">>), Some(<<"-", "1">>),
     Some(<<"a", "b", "c">>)}

\* response.headers.get("Retry-After", "1")
RetryAfterText(r) == IF r.retry_after = None THEN <<"1">> ELSE r.retry_after[1]

\* ------------------------------------------------------------- exceptions

\* An exception object raised by httpx: its type and the ordinal of the
\* network attempt that raised it (its identity).
NoException == [type |-> "none", at |-> 0]

\* An exception raised by request.
Exc(cls, message, status_code, rid, response_body, error_code, retry_after, cause) ==
    [cls |-> cls, message |-> message, status_code |-> status_code,
     request_id |-> rid, response_body |-> response_body,
     error_code |-> error_code, retry_after |-> retry_after, cause |-> cause]

\* An exception that is not a FinWiseError: it has none of its attributes.
RawExc(cls) == Exc(cls, "", None, None, None, None, None, NoException)

NoExc == RawExc("none")

\* FinWiseError and its subclasses.
FinWiseErrors ==
    {"ValidationError", "AuthenticationError", "PermissionDeniedError",
     "NotFoundError", "ConflictError", "RateLimitError", "ServerError",
     "FinWiseAPIError", "FinWiseConnectionError", "FinWiseTimeoutError"}

exception_map ==
    [s \in {400, 401, 403, 404, 409, 422, 429} |->
        CASE s = 400 -> "ValidationError"
          [] s = 401 -> "AuthenticationError"
          [] s = 403 -> "PermissionDeniedError"
          [] s = 404 -> "NotFoundError"
          [] s = 409 -> "ConflictError"
          [] s = 422 -> "ValidationError"
          [] s = 429 -> "RateLimitError"]

\* A classification whose server-error range takes 600 in.
ClassOfThrough600(status_code) ==
    IF status_code \in DOMAIN exception_map THEN exception_map[status_code]
    ELSE IF 500 <= status_code /\ status_code <= 600 THEN "ServerError"
    ELSE "FinWiseAPIError"

\* The class raise_for_status picks for a status code.
ClassOf(status_code) ==
    IF status_code \in DOMAIN exception_map THEN exception_map[status_code]
    ELSE IF 500 <= status_code /\ status_code < 600 THEN "ServerError"
    ELSE "FinWiseAPIError"

\* raise_for_status: the exception it raises.  response_body.get on a value
\* that is not a dict is an AttributeError.
raise_for_status(status_code, response_body, rid) ==
    IF response_body.t # "dict" THEN RawExc("AttributeError")
    ELSE Exc(ClassOf(status_code),
             GetOr(response_body, "message", "Unknown error"),
             Some(status_code), rid, Some(response_body),
             Get(response_body, "code"),
             IF ClassOf(status_code) = "RateLimitError"
                 THEN Get(response_body, "retryAfter") ELSE None,
             NoException)

\* ---------------------------------------------------------------- network

\* Status codes the server can answer with.
Statuses == {200, 204, 302, 400, 401, 403, 404, 409, 422, 429, 500, 502, 503, 600}

\* The responses httpx can hand to request.  The Retry-After header is read
\* for a 429 only (line 105), so only a 429 draws it.
Responses ==
    {r \in [status_code : Statuses, retry_after : RetryAfterHeaders, content : Contents] :
        r.status_code # 429 => r.retry_after = None}

NoResponse == [status_code |-> 0, retry_after |-> None, content |-> ContentEmpty]

\* The responses to the calls of concurrent threads: a success, a client
\* error, a server error and a rate limit with a hint of two seconds.
ThreadRateLimit ==
    [status_code |-> 429, retry_after |-> Some(<<"2">>), content |-> ContentEmpty]
ThreadResponses ==
    {[status_code |-> 200, retry_after |-> None, content |-> ContentEmptyDict],
     [status_code |-> 404, retry_after |-> None, content |-> ContentError],
     [status_code |-> 503, retry_after |-> None, content |-> ContentEmpty],
     ThreadRateLimit}

\* The responses of the resource endpoints: a success with one of their
\* bodies or without content, and an error, a server error and a rate limit.
ResourceResponses ==
    [status_code : {200}, retry_after : {None},
     content : ResourceContents \cup {ContentEmpty}]
        \cup {[status_code |-> 404, retry_after |-> None, content |-> ContentError],
              [status_code |-> 503, retry_after |-> None, content |-> ContentEmpty],
              [status_code |-> 429, retry_after |-> Some(<<"0">>), content |-> ContentEmpty]}

\* httpx exceptions that are neither ConnectError nor TimeoutException
\* (ReadError, RemoteProtocolError, ...).
OtherTransportErrors == {"ReadError"}

\* Values uuid.uuid4() can give.
RequestIds == {"uuid-a", "uuid-b"}

\* response.is_success
is_success(r) == 200 <= r.status_code /\ r.status_code <= 299

\* ------------------------------------------------------------ httpx client

\* self._config.api_key
ApiKey == "test-api-key"

\* The headers _create_client gives the client it builds: lines 55-60.
DefaultHeaders ==
    ("Authorization" :> ApiKey) @@ ("Content-Type" :> "application/json")
        @@ ("Accept" :> "application/json") @@ ("User-Agent" :> "finwise-python")

\* The headers of an httpx.Client() built without a headers argument.
BareHeaders == ("Accept" :> "*/*") @@ ("User-Agent" :> "python-httpx")

NoHeaders == [k \in {} |-> ""]

\* _create_client: the client the transport builds for itself.
CreateClient == [owned |-> TRUE, headers |-> DefaultHeaders, closed |-> FALSE]

\* The http_client argument of HTTPTransport and FinWise: None, or a client
\* of the caller.
HttpClients ==
    {None, Some([owned |-> FALSE, headers |-> BareHeaders, closed |-> FALSE])}

\* self._client = http_client or self._create_client()
TransportClient(http_client) ==
    IF http_client # None THEN http_client[1] ELSE CreateClient

\* httpx sends the client's headers with the headers of the request laid
\* over them.
MergeHeaders(client_headers, headers) == headers @@ client_headers

\* ------------------------------------------------------------------ state

VARIABLES
    client,          \* self._client: the httpx client (its headers, whether
                     \* it is closed, whether the transport built it)
    close_calls,     \* how many times close() was called
    call,            \* a direct call of a function: its name and arguments
    result,          \* what the direct call returned or raised
    max_retries,     \* self._config.max_retries
    pc,              \* "idle", "attempt" (about to call the network),
                     \* "sleep" (inside time.sleep), "done"
    request_id,      \* the local request_id
    attempt,         \* the loop variable
    response,        \* the local response (the last one received)
    last_exception,  \* the local last_exception
    trace,           \* every network attempt and every time.sleep call, in order
    outcome,         \* how the call ended: a returned value or a raised exception
    threads          \* the thread that is running, whose call the variables
                     \* pc .. outcome describe, and the frames (the same
                     \* locals) of the calls of the other threads

vars ==
    <<client, close_calls, call, result, max_retries, pc, request_id, attempt,
      response, last_exception, trace, outcome, threads>>

\* The variables of direct calls and the frames of the other threads,
\* which a step of request leaves alone.
direct == <<call, result, threads>>

\* The threads that call request together, and a process with one thread.
Threads == {"t1", "t2"}
SingleThread == [running |-> "t1", parked |-> [t \in {} |-> 0]]

NoCall == [fn |-> "none"]
NoResult == [kind |-> "none"]

\* Calls of request made by several threads on one transport.
ConcurrentCall == [fn |-> "threads"]

\* What the server can answer: any response to a request made on the
\* transport directly, the responses of the endpoint to a resource operation.
ServerResponses ==
    IF call = NoCall THEN Responses
    ELSE IF call = ConcurrentCall THEN ThreadResponses
    ELSE ResourceResponses

NoOutcome == [kind |-> "none", value |-> NoDoc, exc |-> NoExc]
Return(v) == [kind |-> "return", value |-> v, exc |-> NoExc]
Raise(e) == [kind |-> "raise", value |-> NoDoc, exc |-> e]

\* ------------------------------------------------------ resource requests

\* The arguments of request: method, path, json and params.  NoRequest
\* stands for those of a call made on the transport directly.
NoRequest == [method |-> "", path |-> "", json |-> None, params |-> None]

\* HTTPTransport.get / post / patch / delete: lines 166-196.
get(path, params) == [method |-> "GET", path |-> path, json |-> None, params |-> params]
post(path, json, params) == [method |-> "POST", path |-> path, json |-> json, params |-> params]
patch(path, json, params) == [method |-> "PATCH", path |-> path, json |-> json, params |-> params]
delete(path, params) == [method |-> "DELETE", path |-> path, json |-> None, params |-> params]

\* What a resource operation does before it calls the transport: it
\* raises, or it has the request to make.
Rejected(cls) == [ok |-> FALSE, cls |-> cls, request |-> NoRequest]
Accepted(request) == [ok |-> TRUE, cls |-> "none", request |-> request]

\* Pagination parameters without the upper limit of page_size.
PaginationParamsNoMax(page_number, page_size) == page_number >= 1 /\ page_size >= 1

\* PaginationParams: page_number ge=1, page_size ge=1 and le=500.
PaginationParams(page_number, page_size) ==
    page_number >= 1 /\ page_size >= 1 /\ page_size <= 500

\* PaginationParams.to_query_dict
to_query_dict(page_number, page_size) == [pageNumber |-> page_number, pageSize |-> page_size]

\* BaseResource._build_pagination_params
build_pagination_params(page_number, page_size) ==
    IF PaginationParams(page_number, page_size)
        THEN Some(to_query_dict(page_number, page_size)) ELSE None

\* An argument that was not passed takes its default.
Default(arg, default) == IF arg = None THEN default ELSE arg[1]

\* AccountCreateRequest / AccountUpdateRequest: name has min_length=1 (the
\* names of the model are shorter than max_length).
AccountCreateRequest(name) == name # ""
AccountUpdateRequest(name) == name = None \/ name[1] # ""

\* request.model_dump(by_alias=True, exclude_none=True)
CreateJson(name) == [name |-> name, type |-> "depository", currency |-> "USD"]
UpdateJson(name) == IF name = None THEN [k \in {} |-> ""] ELSE [name |-> name[1]]

\* The resource operations up to their call of the transport:
\* AccountsResource.create, update and list, TransactionsResource.list and
\* TransactionCategoriesResource.delete.  accounts.list takes no argument:
\* a keyword argument is a TypeError.
Prepare(c) ==
    CASE c.fn = "accounts.create" ->
            IF AccountCreateRequest(c.name[1])
                THEN Accepted(post("/accounts", Some(CreateJson(c.name[1])), None))
                ELSE Rejected("pydantic.ValidationError")
      [] c.fn = "accounts.update" ->
            IF AccountUpdateRequest(c.name)
                THEN Accepted(patch("/accounts/acc_1", Some(UpdateJson(c.name)), None))
                ELSE Rejected("pydantic.ValidationError")
      [] c.fn = "accounts.list" ->
            IF c.page_number # None \/ c.page_size # None
                THEN Rejected("TypeError")
                ELSE Accepted(get("/accounts", None))
      [] c.fn = "transactions.list" ->
            LET params == build_pagination_params(Default(c.page_number, 1),
                                                  Default(c.page_size, 100))
            IN  IF params # None
                    THEN Accepted(get("/transactions", params))
                    ELSE Rejected("pydantic.ValidationError")
      [] c.fn = "transaction_categories.delete" ->
            Accepted(delete("/transaction-categories/cat_1", None))
      [] OTHER -> Accepted(NoRequest)

\* A transport that resends a retry without its JSON body.
SentRequestWithoutBody(a) ==
    IF a = 0 THEN Prepare(call).request ELSE [Prepare(call).request EXCEPT !.json = None]

\* The method, path, json and params of the attempt with index a: lines
\* 95-101 pass the arguments of request on every iteration.
SentRequest(a) == Prepare(call).request

\* A Request-Id header that is generated anew for every retry.
RequestIdHeaderFresh(a) ==
    IF a = 0 THEN request_id ELSE CHOOSE id \in RequestIds : id # request_id

\* The Request-Id header sent on the attempt with index a: line 89 builds
\* headers once, before the loop, from request_id.
RequestIdHeader(a) == request_id

\* headers = {"Request-Id": request_id}
Headers(a) == "Request-Id" :> RequestIdHeader(a)

\* Trace events.  An attempt event carries the index of the loop iteration,
\* the status code received (0 when the attempt raised), the type of the
\* exception raised ("none" when a response came) and the Request-Id sent, and all
\* the headers sent.
AttemptEvent(status, exc) ==
    [ev |-> "attempt", idx |-> attempt, status |-> status, exc |-> exc,
     dur |-> 0, rid |-> RequestIdHeader(attempt),
     headers |-> MergeHeaders(client.headers, Headers(attempt)),
     request |-> SentRequest(attempt)]

\* A call time.sleep(d).
SleepEvent(d) ==
    [ev |-> "sleep", idx |-> attempt, status |-> 0, exc |-> "none",
     dur |-> d, rid |-> request_id, headers |-> NoHeaders, request |-> NoRequest]

\* ClientConfig.__post_init__ accepts max_retries >= 0 only.
ValidMaxRetries == 0..MaxRetriesBound

Init ==
    /\ \E http_client \in HttpClients : client = TransportClient(http_client)
    /\ close_calls = 0
    /\ call = NoCall
    /\ result = NoResult
    /\ max_retries \in ValidMaxRetries
    /\ pc = "idle"
    /\ request_id = ""
    /\ attempt = 0
    /\ response = NoResponse
    /\ last_exception = NoException
    /\ trace = <<>>
    /\ outcome = NoOutcome
    /\ threads = SingleThread

\* ---------------------------------------------------------- backoff policy

\* A loop whose last iteration retries as well.
RetriesLeftThroughLast(a) == a <= max_retries

\* attempt < self._config.max_retries
RetriesLeft(a) == a < max_retries

\* A backoff that grows linearly: 2*attempt where the code has 2**attempt.
BackoffLinear(a) == 2 * a

\* 2**attempt
Backoff(a) == 2 ^ a

\* A rate-limit wait that takes the hint of the server uncapped.
RateLimitWaitUncapped(retry_after, a) == retry_after

\* min(retry_after, 2**attempt)
RateLimitWait(retry_after, a) == Min(retry_after, 2 ^ a)

\* A retry that does not advance the attempt counter.
NextAttemptSame(a) == a

\* The loop variable after `continue`: the next element of
\* range(max_retries + 1).
NextAttempt(a) == a + 1

\* range(self._config.max_retries + 1)
AttemptRange == 0..max_retries

\* ---------------------------------------------------------------- actions

\* A close that releases only a client the transport built itself.
ClosedAfterCloseOwned(c) == c.closed \/ c.owned

\* Whether the httpx client is closed after self._client.close(): line 200.
ClosedAfterClose(c) == TRUE

\* The call ends in this iteration: after the network attempt `e`, with
\* outcome `out`.
Finish(e, out) ==
    /\ trace' = Append(trace, e)
    /\ outcome' = out
    /\ pc' = "done"
    /\ UNCHANGED attempt

\* time.sleep(d) after the network attempt `e`.  A negative d makes
\* time.sleep raise ValueError, which no handler of request catches.
SleepAfter(e, d) ==
    /\ trace' = trace \o <<e, SleepEvent(d)>>
    /\ IF d < 0
         THEN outcome' = Raise(RawExc("ValueError")) /\ pc' = "done"
         ELSE outcome' = outcome /\ pc' = "sleep"
    /\ UNCHANGED attempt

\* HTTPTransport.close (FinWise.close, FinWise.__exit__) before the call:
\* self._client.close().  Closing a closed httpx client changes nothing.
Close ==
    /\ pc = "idle"
    /\ close_calls < MaxCloses
    /\ close_calls' = close_calls + 1
    /\ client' = [client EXCEPT !.closed = ClosedAfterClose(client)]
    /\ UNCHANGED <<direct, max_retries, pc, request_id, attempt, response,
                   last_exception, trace, outcome>>

\* The loop is about to call self._client.request on an open client.
Sending == pc = "attempt" /\ ~client.closed

\* The RuntimeError of a closed httpx client.
ClientClosedError ==
    Exc("RuntimeError", "Cannot send a request, as the client has been closed.",
        None, None, None, None, None, NoException)

\* self._client.request on a closed client: httpx raises RuntimeError
\* before it sends anything, and no except clause of request catches it.
RequestOnClosed ==
    /\ pc = "attempt"
    /\ client.closed
    /\ outcome' = Raise(ClientClosedError)
    /\ pc' = "done"
    /\ UNCHANGED <<client, close_calls, direct, max_retries, request_id, attempt,
                   response, last_exception, trace>>

\* request is called: lines 88-93.
Request ==
    /\ pc = "idle"
    /\ \E id \in RequestIds : request_id' = id
    /\ last_exception' = NoException
    /\ attempt' = 0
    /\ pc' = "attempt"
    /\ UNCHANGED <<client, close_calls, direct, max_retries, response, trace, outcome>>

\* The body of response.json() if response.content else {}
BodyOk(r) == r.content = ContentEmpty \/ JsonOk(r.content)
Body(r) == IF r.content = ContentEmpty THEN EmptyDict ELSE Json(r.content)

\* The RateLimitError of lines 114-120.
RateLimitExceeded(r, retry_after) ==
    Exc("RateLimitError", "Rate limit exceeded", Some(429), Some(request_id),
        Some(Body(r)), None, Some(retry_after), NoException)

\* A 429 response: lines 104-120.
RateLimited ==
    /\ Sending
    /\ \E r \in ServerResponses :
        /\ r.status_code = 429
        /\ response' = r
        /\ LET e == AttemptEvent(r.status_code, "none")
               text == RetryAfterText(r)
           IN  IF ~IntOk(text)
                 THEN Finish(e, Raise(RawExc("ValueError")))
               ELSE IF RetriesLeft(attempt)
                 THEN SleepAfter(e, RateLimitWait(IntValue(text), attempt))
               ELSE IF ~BodyOk(r)
                 THEN Finish(e, Raise(RawExc("JSONDecodeError")))
               ELSE Finish(e, Raise(RateLimitExceeded(r, IntValue(text))))
    /\ UNCHANGED <<client, close_calls, direct, max_retries, request_id, last_exception>>

\* A retry of a server error that parses the body of the response first.
ServerErrorRetryParsing ==
    /\ Sending
    /\ \E r \in ServerResponses :
        /\ r.status_code # 429
        /\ r.status_code >= 500 /\ RetriesLeft(attempt)
        /\ response' = r
        /\ IF ~BodyOk(r)
             THEN Finish(AttemptEvent(r.status_code, "none"), Raise(RawExc("JSONDecodeError")))
             ELSE SleepAfter(AttemptEvent(r.status_code, "none"), Backoff(attempt))
    /\ UNCHANGED <<client, close_calls, direct, max_retries, request_id, last_exception>>

\* A response with status >= 500 while retries are left: lines 123-126.
ServerErrorRetry ==
    /\ Sending
    /\ \E r \in ServerResponses :
        /\ r.status_code # 429
        /\ r.status_code >= 500 /\ RetriesLeft(attempt)
        /\ response' = r
        /\ SleepAfter(AttemptEvent(r.status_code, "none"), Backoff(attempt))
    /\ UNCHANGED <<client, close_calls, direct, max_retries, request_id, last_exception>>

\* What lines 129-139 do with the response r: the outcome.
Conclude(r) ==
    IF ~BodyOk(r) THEN Raise(RawExc("JSONDecodeError"))
    ELSE IF ~is_success(r)
        THEN Raise(raise_for_status(r.status_code, Body(r), Some(request_id)))
    ELSE Return(Body(r))

\* Any other response: lines 129-139.
Respond ==
    /\ Sending
    /\ \E r \in ServerResponses :
        /\ r.status_code # 429
        /\ ~(r.status_code >= 500 /\ RetriesLeft(attempt))
        /\ response' = r
        /\ Finish(AttemptEvent(r.status_code, "none"), Conclude(r))
    /\ UNCHANGED <<client, close_calls, direct, max_retries, request_id, last_exception>>

\* The exception object the attempt being made raises.
HttpxError(type) == [type |-> type, at |-> Len(SelectSeq(trace, LAMBDA x : x.ev = "attempt")) + 1]

\* FinWiseConnectionError(...) from e: lines 146-149.
ConnectionFailure(e) ==
    Exc("FinWiseConnectionError", "Failed to connect", None, Some(request_id),
        None, None, None, e)

\* FinWiseTimeoutError(...) from e: lines 156-159.
TimeoutFailure(e) ==
    Exc("FinWiseTimeoutError", "Request timed out", None, Some(request_id),
        None, None, None, e)

\* except httpx.ConnectError: lines 141-149.
ConnectErrorCaught ==
    /\ Sending
    /\ LET e == HttpxError("ConnectError")
       IN  /\ last_exception' = e
           /\ IF RetriesLeft(attempt)
                THEN SleepAfter(AttemptEvent(0, e.type), Backoff(attempt))
                ELSE Finish(AttemptEvent(0, e.type), Raise(ConnectionFailure(e)))
    /\ UNCHANGED <<client, close_calls, direct, max_retries, request_id, response>>

\* except httpx.TimeoutException: lines 151-159.
TimeoutCaught ==
    /\ Sending
    /\ LET e == HttpxError("TimeoutException")
       IN  /\ last_exception' = e
           /\ IF RetriesLeft(attempt)
                THEN SleepAfter(AttemptEvent(0, e.type), Backoff(attempt))
                ELSE Finish(AttemptEvent(0, e.type), Raise(TimeoutFailure(e)))
    /\ UNCHANGED <<client, close_calls, direct, max_retries, request_id, response>>

\* Any other exception of the network call: no except clause matches and it
\* leaves request as it is.
TransportErrorUncaught ==
    /\ Sending
    /\ \E t \in OtherTransportErrors :
        Finish(AttemptEvent(0, t), Raise(RawExc(t)))
    /\ UNCHANGED <<client, close_calls, direct, max_retries, request_id, response, last_exception>>

\* time.sleep returns and `continue` takes the loop to its next iteration,
\* or past its end to lines 162-164.
Wake ==
    /\ pc = "sleep"
    /\ IF NextAttempt(attempt) \in AttemptRange
         THEN /\ attempt' = NextAttempt(attempt)
              /\ pc' = "attempt"
              /\ UNCHANGED outcome
         ELSE /\ outcome' = IF last_exception # NoException
                              THEN Raise(RawExc(last_exception.type))
                              ELSE Raise(RawExc("RuntimeError"))
              /\ pc' = "done"
              /\ UNCHANGED attempt
    /\ UNCHANGED <<client, close_calls, direct, max_retries, request_id, response, last_exception, trace>>

Next ==
    \/ Close
    \/ Request
    \/ RequestOnClosed
    \/ RateLimited
    \/ ServerErrorRetry
    \/ Respond
    \/ ConnectErrorCaught
    \/ TimeoutCaught
    \/ TransportErrorUncaught
    \/ Wake

Spec == Init /\ [][Next]_vars

\* Under the assumption that every network attempt and every backoff sleep
\* completes, and that the caller makes the call.
FairSpec == Spec /\ WF_vars(Next)

\* ------------------------------------------- raise_for_status, called directly

\* The variables of the transport, which a direct call leaves alone.
transport ==
    <<client, close_calls, max_retries, pc, request_id, attempt, response,
      last_exception, trace, outcome, threads>>

\* A transport on which nothing happens.
TransportIdle ==
    /\ client = CreateClient
    /\ close_calls = 0
    /\ max_retries = 0
    /\ pc = "idle"
    /\ request_id = ""
    /\ attempt = 0
    /\ response = NoResponse
    /\ last_exception = NoException
    /\ trace = <<>>
    /\ outcome = NoOutcome
    /\ threads = SingleThread

\* Status codes and documents (response_body: dict[str, Any]) given to
\* raise_for_status.
ClassifyStatuses ==
    {200, 302, 400, 401, 403, 404, 409, 418, 422, 429, 499, 500, 503, 599, 600}

ClassifyDocs ==
    {EmptyDict,
     Dict([message |-> "Not found", code |-> "E404"]),
     Dict([message |-> "Slow down"]),
     Dict([retryAfter |-> 7]),
     Dict([code |-> "E429", retryAfter |-> 7])}

ClassifyInit ==
    /\ TransportIdle
    /\ call \in [fn : {"raise_for_status"}, status_code : ClassifyStatuses,
                 response_body : ClassifyDocs,
                 request_id : {None} \cup {Some(id) : id \in RequestIds}]
    /\ result = NoResult

\* raise_for_status(status_code, response_body, request_id)
Classify ==
    /\ call.fn = "raise_for_status"
    /\ result = NoResult
    /\ result' = [kind |-> "raise",
                  exc |-> raise_for_status(call.status_code, call.response_body,
                                           call.request_id)]
    /\ UNCHANGED <<call, transport>>

ClassifyNext == Classify

ClassifySpec == ClassifyInit /\ [][ClassifyNext]_vars

\* ------------------------------------------------------------ configuration

\* not x, for an Optional[str]
Falsy(x) == x = None \/ x = Some("")

\* A check that also rejects max_retries = 0.
NegativeRetriesOrZero(n) == n <= 0

\* self.max_retries < 0
NegativeRetries(n) == n < 0

\* A construction that succeeded, with the configuration it gave, and one
\* that raised.
Constructed(api_key, timeout, retries) ==
    [kind |-> "config", cls |-> "none",
     config |-> [api_key |-> api_key, timeout |-> timeout, max_retries |-> retries]]
ConstructionError(cls) ==
    [kind |-> "raise", cls |-> cls,
     config |-> [api_key |-> None, timeout |-> 0, max_retries |-> 0]]

\* ClientConfig(api_key, timeout, max_retries): the frozen dataclass keeps
\* the values as given and __post_init__ validates them.
ClientConfig(api_key, timeout, retries) ==
    IF Falsy(api_key) THEN ConstructionError("ValueError")
    ELSE IF timeout <= 0 THEN ConstructionError("ValueError")
    ELSE IF NegativeRetries(retries) THEN ConstructionError("ValueError")
    ELSE Constructed(api_key, timeout, retries)

\* api_key or os.environ.get("FINWISE_API_KEY")
ResolvedApiKey(api_key, env) == IF ~Falsy(api_key) THEN api_key ELSE env

\* FinWise.__init__: lines 80-93.
FinWise(api_key, env, timeout, retries) ==
    IF Falsy(ResolvedApiKey(api_key, env)) THEN ConstructionError("ValueError")
    ELSE ClientConfig(ResolvedApiKey(api_key, env), timeout, retries)

\* Arguments of a construction: the key (argument and environment
\* variable) absent, empty or set; timeouts and retry budgets on both sides
\* of the limits.
ApiKeys == {None, Some(""), Some(ApiKey)}
EnvApiKeys == {None, Some(""), Some("env-api-key")}
Timeouts == {0 - 1, 0, 1, 30}
RetryBudgets == {0 - 1, 0, 1, 3}

ConfigInit ==
    /\ TransportIdle
    /\ \/ call \in [fn : {"ClientConfig"}, api_key : ApiKeys, env : {None},
                    timeout : Timeouts, max_retries : RetryBudgets]
       \/ call \in [fn : {"FinWise"}, api_key : ApiKeys, env : EnvApiKeys,
                    timeout : Timeouts, max_retries : RetryBudgets]
    /\ result = NoResult

\* ClientConfig(...) is constructed directly.
ConstructClientConfig ==
    /\ call.fn = "ClientConfig"
    /\ result = NoResult
    /\ result' = ClientConfig(call.api_key, call.timeout, call.max_retries)
    /\ UNCHANGED <<call, transport>>

\* FinWise(...) is constructed.
ConstructFinWise ==
    /\ call.fn = "FinWise"
    /\ result = NoResult
    /\ result' = FinWise(call.api_key, call.env, call.timeout, call.max_retries)
    /\ UNCHANGED <<call, transport>>

ConfigNext ==
    \/ ConstructClientConfig
    \/ ConstructFinWise

ConfigSpec == ConfigInit /\ [][ConfigNext]_vars

\* -------------------------------------------------------------- resources

\* What a resource operation returns or raises.
NoValue == [t |-> "None"]
ResourceReturns(value) == [kind |-> "return", cls |-> "none", value |-> value]
ResourceRaises(cls) == [kind |-> "raise", cls |-> cls, value |-> NoValue]

\* Account.model_validate(item): the fields without default must be there.
AccountRequired == {"id", "userId", "name", "type", "subType", "createdAt", "updatedAt"}
AccountOk(item) == item.t = "dict" /\ AccountRequired \subseteq DOMAIN item.v
Account(item) ==
    [t |-> "Account", id |-> item.v.id, user_id |-> item.v.userId, name |-> item.v.name,
     type |-> item.v.type, sub_type |-> item.v.subType]

\* Transaction.model_validate(item)
TransactionRequired ==
    {"id", "accountId", "amount", "transactionDate", "type", "createdAt", "updatedAt"}
TransactionOk(item) == item.t = "dict" /\ TransactionRequired \subseteq DOMAIN item.v
Transaction(item) ==
    [t |-> "Transaction", id |-> item.v.id, account_id |-> item.v.accountId]

\* The items a list operation reads from a key-value document:
\* response.get("data", [])
DataOf(v) == GetOr(v, "data", <<>>)

\* AccountsResource.create / update after the transport returned v: line
\* 104 / 163.
AccountsOne(v) ==
    IF AccountOk(v) THEN ResourceReturns(Account(v))
    ELSE ResourceRaises("pydantic.ValidationError")

\* AccountsResource.list after the transport returned v: lines 183-187.
AccountsList(v) ==
    LET items == IF v.t = "list" THEN v.v ELSE DataOf(v)
    IN  IF \A i \in 1..Len(items) : AccountOk(items[i])
            THEN ResourceReturns([t |-> "list",
                                  data |-> [i \in 1..Len(items) |-> Account(items[i])]])
            ELSE ResourceRaises("pydantic.ValidationError")

\* TransactionsResource.list after the transport returned v: lines
\* 173-185.  response.get on a list is an AttributeError.
TransactionsList(v, page_number, page_size) ==
    IF v.t # "dict" THEN ResourceRaises("AttributeError")
    ELSE IF \E i \in 1..Len(DataOf(v)) : ~TransactionOk(DataOf(v)[i])
        THEN ResourceRaises("pydantic.ValidationError")
    ELSE ResourceReturns(
            [t |-> "PaginatedResponse",
             data |-> [i \in 1..Len(DataOf(v)) |-> Transaction(DataOf(v)[i])],
             page_number |-> GetOr(v, "pageNumber", page_number),
             page_size |-> GetOr(v, "pageSize", page_size),
             total_count |-> GetOr(v, "totalCount", Len(DataOf(v))),
             total_pages |-> GetOr(v, "totalPages", 1),
             has_next |-> GetOr(v, "hasNext", FALSE),
             has_previous |-> GetOr(v, "hasPrevious", FALSE)])

\* What the operation c makes of the outcome of the transport: a failure
\* of the transport passes through.
Build(c, out) ==
    IF out.kind = "raise" THEN ResourceRaises(out.exc.cls)
    ELSE CASE c.fn \in {"accounts.create", "accounts.update"} -> AccountsOne(out.value)
           [] c.fn = "accounts.list" -> AccountsList(out.value)
           [] c.fn = "transactions.list" ->
                TransactionsList(out.value, Default(c.page_number, 1),
                                 Default(c.page_size, 100))
           [] OTHER -> ResourceReturns(NoValue)

\* The calls of resource operations: create and update with an empty and
\* a good name, the list operations with their pagination arguments left
\* out, in range and out of range.
ResourceCalls ==
    [fn : {"accounts.create"}, name : {Some(""), Some("Savings")},
     page_number : {None}, page_size : {None}]
    \cup [fn : {"accounts.update"}, name : {None, Some(""), Some("Renamed")},
          page_number : {None}, page_size : {None}]
    \cup [fn : {"accounts.list"}, name : {None},
          page_number : {None, Some(0), Some(2)}, page_size : {None, Some(50)}]
    \cup [fn : {"transactions.list"}, name : {None},
          page_number : {None, Some(0), Some(2)},
          page_size : {None, Some(0), Some(50), Some(500), Some(501)}]
    \cup [fn : {"transaction_categories.delete"}, name : {None},
          page_number : {None}, page_size : {None}]

ResourceInit ==
    /\ client = CreateClient
    /\ close_calls = 0
    /\ call \in ResourceCalls
    /\ result = NoResult
    /\ max_retries \in 0..ResourceMaxRetries
    /\ pc = "idle"
    /\ request_id = ""
    /\ attempt = 0
    /\ response = NoResponse
    /\ last_exception = NoException
    /\ trace = <<>>
    /\ outcome = NoOutcome
    /\ threads = SingleThread

\* The operation raises before it calls the transport.
ResourceRejected ==
    /\ pc = "idle"
    /\ result = NoResult
    /\ ~Prepare(call).ok
    /\ result' = ResourceRaises(Prepare(call).cls)
    /\ UNCHANGED <<call, transport>>

\* The operation calls self._transport.get / post / patch / delete.
ResourceRequest ==
    /\ result = NoResult
    /\ Prepare(call).ok
    /\ Request

\* The transport has returned or raised and the operation ends.
ResourceReturn ==
    /\ pc = "done"
    /\ result = NoResult
    /\ result' = Build(call, outcome)
    /\ UNCHANGED <<call, transport>>

ResourceNext ==
    \/ ResourceRejected
    \/ ResourceRequest
    \/ RateLimited
    \/ ServerErrorRetry
    \/ Respond
    \/ ConnectErrorCaught
    \/ TimeoutCaught
    \/ TransportErrorUncaught
    \/ Wake
    \/ ResourceReturn

ResourceSpec == ResourceInit /\ [][ResourceNext]_vars

\* --------------------------------------------------------- concurrent calls

\* The locals of one invocation of request: those of the running thread.
Frame ==
    [pc |-> pc, request_id |-> request_id, attempt |-> attempt, response |-> response,
     last_exception |-> last_exception, trace |-> trace, outcome |-> outcome]

\* The locals of an invocation that has not begun.
IdleFrame ==
    [pc |-> "idle", request_id |-> "", attempt |-> 0, response |-> NoResponse,
     last_exception |-> NoException, trace |-> <<>>, outcome |-> NoOutcome]

\* An attempt counter kept on the transport, one for all threads.
SharedAttempt(f) == attempt

\* The loop variable of the thread that resumes with the frame f: a local
\* of its own invocation.
LocalAttempt(f) == f.attempt

ConcurrentInit ==
    /\ client = CreateClient
    /\ close_calls = 0
    /\ call = ConcurrentCall
    /\ result = NoResult
    /\ max_retries \in 0..ConcurrentMaxRetries
    /\ pc = "idle"
    /\ request_id = ""
    /\ attempt = 0
    /\ response = NoResponse
    /\ last_exception = NoException
    /\ trace = <<>>
    /\ outcome = NoOutcome
    /\ threads = [running |-> "t1", parked |-> [t \in Threads \ {"t1"} |-> IdleFrame]]

\* The scheduler takes the running thread off the processor, during a
\* network attempt, a sleep or between two statements, and resumes another:
\* the locals of the one are kept in its frame and those of the other are
\* back as it left them.
Switch ==
    \E t \in DOMAIN threads.parked :
        /\ pc' = threads.parked[t].pc
        /\ request_id' = threads.parked[t].request_id
        /\ attempt' = LocalAttempt(threads.parked[t])
        /\ response' = threads.parked[t].response
        /\ last_exception' = threads.parked[t].last_exception
        /\ trace' = threads.parked[t].trace
        /\ outcome' = threads.parked[t].outcome
        /\ threads' = [running |-> t,
                       parked |-> [u \in Threads \ {t} |->
                                      IF u = threads.running THEN Frame
                                      ELSE threads.parked[u]]]
        /\ UNCHANGED <<client, close_calls, call, result, max_retries>>

ConcurrentNext ==
    \/ Switch
    \/ Request
    \/ RateLimited
    \/ ServerErrorRetry
    \/ Respond
    \/ ConnectErrorCaught
    \/ TimeoutCaught
    \/ TransportErrorUncaught
    \/ Wake

ConcurrentSpec == ConcurrentInit /\ [][ConcurrentNext]_vars

\* ----------------------------------------------------- reading the trace

IsAttempt(x) == x.ev = "attempt"
IsSleep(x) == x.ev = "sleep"

\* The network attempts of the call, in order, and its time.sleep calls.
Attempts == SelectSeq(trace, IsAttempt)
Sleeps == SelectSeq(trace, IsSleep)
NumAttempts == Len(Attempts)
LastAttempt == Attempts[NumAttempts]
SleepDurations == [i \in 1..Len(Sleeps) |-> Sleeps[i].dur]

\* 1, 2, 4, ..., 2^(n-1)
Exponential(n) == [i \in 1..n |-> 2 ^ (i - 1)]

\* There were attempts and every one of them received the status s / raised the exception t.
AllStatus(s) == NumAttempts > 0 /\ \A i \in 1..NumAttempts : Attempts[i].status = s
AllRaised(t) == NumAttempts > 0 /\ \A i \in 1..NumAttempts : Attempts[i].exc = t

\* The trace ends with a network attempt: nothing was done after it.
EndsWithAttempt == trace # <<>> /\ IsAttempt(trace[Len(trace)])

\* The server's suggested wait as the specification reads it: the
\* Retry-After header as an integer, 1 when missing or not an integer.
Hint(r) ==
    IF IntOk(RetryAfterText(r)) THEN IntValue(RetryAfterText(r)) ELSE 1

\* The call raised a failure of class cls.
RaisedClass(cls) == outcome.kind = "raise" /\ outcome.exc.cls = cls

\* A transient cause: 429, 5xx, connection failure or timeout.
Transient(e) ==
    \/ e.status = 429
    \/ (500 <= e.status /\ e.status <= 599)
    \/ e.exc \in {"ConnectError", "TimeoutException"}

\* ------------------------------------------------------------------ claims

\* C1: a call ends with exactly one outcome, a returned document or one
\* raised failure of the FinWiseError taxonomy, never both and never an
\* error outside the taxonomy, whatever the attempts' results were.
C1_OneClassifiedOutcome ==
    pc = "done" =>
        \/ outcome.kind = "return" /\ outcome.exc = NoExc
        \/ outcome.kind = "raise" /\ outcome.value = NoDoc
               /\ outcome.exc.cls \in FinWiseErrors

\* C2: one call issues at most max_retries + 1 network attempts whatever
\* mix of 429, 5xx, connection failures and timeouts it meets, and the k-th
\* attempt is made at attempt index k - 1: one counter, never reset.
C2_SharedBudget ==
    /\ NumAttempts <= max_retries + 1
    /\ \A k \in 1..NumAttempts : Attempts[k].idx = k - 1

\* C2 witness: a call that exhausted its budget on three different causes.
C2_Witness ==
    /\ pc = "done"
    /\ max_retries = 2
    /\ NumAttempts = 3
    /\ Attempts[1].status = 429
    /\ Attempts[2].exc = "TimeoutException"
    /\ Attempts[3].status = 503

\* C3: a call whose last attempt, at index max_retries, met a transient
\* cause has ended by raising one classified failure.
C3_ExhaustionRaisesClassified ==
    (NumAttempts > 0 /\ LastAttempt.idx = max_retries /\ Transient(LastAttempt)) =>
        /\ pc = "done"
        /\ outcome.kind = "raise"
        /\ outcome.exc.cls \in FinWiseErrors

\* C3, the part on termination: every call eventually ends.
C3_Terminates == <>(pc = "done")

\* C4: when every attempt received a 429 the call made exactly
\* max_retries + 1 attempts and raised RateLimitError with status_code 429
\* and the retry_after of the last response's hint.
C4_RateLimitExhausted ==
    (pc = "done" /\ AllStatus(429)) =>
        /\ NumAttempts = max_retries + 1
        /\ RaisedClass("RateLimitError")
        /\ outcome.exc.status_code = Some(429)
        /\ outcome.exc.retry_after = Some(Hint(response))

\* C5: a 429 whose Retry-After header is missing or not an integer is
\* handled with hint 1: a sleep of 1 second when retries are left, and
\* RateLimitError with retry_after 1 when not.
C5_DefaultHint ==
    (/\ NumAttempts > 0
     /\ LastAttempt.status = 429
     /\ (response.retry_after = None \/ ~IntOk(RetryAfterText(response)))) =>
        IF LastAttempt.idx < max_retries
          THEN pc # "done" /\ trace[Len(trace)].ev = "sleep" /\ trace[Len(trace)].dur = 1
          ELSE RaisedClass("RateLimitError") /\ outcome.exc.retry_after = Some(1)

\* C6: a 429 with hint h at attempt index i < max_retries is followed by one
\* sleep of min(h, 2^i) seconds and then by the next attempt; a 429 on
\* attempt 0 followed by a 200 on attempt 1 gives one sleep and returns the
\* body of the 200.
C6_RateLimitSleep ==
    /\ (NumAttempts > 0 /\ LastAttempt.status = 429 /\ LastAttempt.idx < max_retries) =>
           /\ trace[Len(trace)].ev = "sleep"
           /\ trace[Len(trace)].dur = Min(Hint(response), 2 ^ LastAttempt.idx)
           /\ pc \in {"sleep", "attempt"}
           /\ pc = "attempt" => attempt = LastAttempt.idx + 1
    /\ (NumAttempts = 2 /\ Attempts[1].status = 429 /\ Attempts[2].status = 200) =>
           /\ Len(Sleeps) = 1
           /\ Sleeps[1].dur \in {0, 1}
           /\ outcome = Return(Body(response))

\* C7: when every attempt received the same status of {500, 502, 503} the
\* call made max_retries + 1 attempts, slept 1, 2, 4, ... between them and
\* raised ServerError with that status.
C7_ServerErrorExhausted ==
    \A s \in {500, 502, 503} :
        (pc = "done" /\ AllStatus(s)) =>
            /\ NumAttempts = max_retries + 1
            /\ SleepDurations = Exponential(max_retries)
            /\ RaisedClass("ServerError")
            /\ outcome.exc.status_code = Some(s)

\* C8: a non-success status that is neither 429 nor >= 500 ends the call
\* at once with the classified failure: no sleep and no attempt follows it,
\* and a 404 gives NotFoundError with status_code 404.
C8_ClientErrorImmediate ==
    (/\ NumAttempts > 0
     /\ LastAttempt.status >= 300
     /\ LastAttempt.status < 500
     /\ LastAttempt.status # 429) =>
        /\ pc = "done"
        /\ EndsWithAttempt
        /\ outcome.kind = "raise"
        /\ outcome.exc.cls \in FinWiseErrors
        /\ outcome.exc.status_code = Some(LastAttempt.status)
        /\ LastAttempt.status = 404 => outcome.exc.cls = "NotFoundError"

\* C9: when every attempt failed to connect (timed out) the call made
\* max_retries + 1 attempts, slept 2^i after attempt index i and raised
\* FinWiseConnectionError (FinWiseTimeoutError) whose cause is the exception
\* of the last attempt.
C9_TransportExhausted ==
    /\ (pc = "done" /\ AllRaised("ConnectError")) =>
           /\ NumAttempts = max_retries + 1
           /\ SleepDurations = Exponential(max_retries)
           /\ RaisedClass("FinWiseConnectionError")
           /\ outcome.exc.cause = [type |-> "ConnectError", at |-> max_retries + 1]
    /\ (pc = "done" /\ AllRaised("TimeoutException")) =>
           /\ NumAttempts = max_retries + 1
           /\ SleepDurations = Exponential(max_retries)
           /\ RaisedClass("FinWiseTimeoutError")
           /\ outcome.exc.cause = [type |-> "TimeoutException", at |-> max_retries + 1]

\* C9 witness: three connection failures with max_retries = 2, sleeps of 1
\* and 2 seconds, then the failure.
C9_Witness ==
    /\ pc = "done"
    /\ max_retries = 2
    /\ AllRaised("ConnectError")
    /\ SleepDurations = <<1, 2>>
    /\ RaisedClass("FinWiseConnectionError")

\* C10: a response with a success status ends the call at once: it returns
\* the parsed body, or an empty document when there is no content, and no
\* sleep and no attempt follows.
C10_SuccessReturns ==
    (NumAttempts > 0 /\ LastAttempt.status >= 200 /\ LastAttempt.status <= 299) =>
        /\ pc = "done"
        /\ EndsWithAttempt
        /\ outcome.kind = "return"
        /\ response.content = ContentEmpty => outcome.value = EmptyDict
        /\ response.content # ContentEmpty => outcome.value = Json(response.content)

\* What the caller holds of the correlation identifier when the call has
\* ended: the request_id attribute of the raised failure; `return
\* response_body` hands back the parsed body and nothing else.
OutcomeRequestId ==
    IF outcome.kind = "raise" THEN outcome.exc.request_id ELSE None

\* The failure kind the status table gives a status code.
StatusTable(s) ==
    CASE s \in {400, 422} -> "ValidationError"
      [] s = 401 -> "AuthenticationError"
      [] s = 403 -> "PermissionDeniedError"
      [] s = 404 -> "NotFoundError"
      [] s = 409 -> "ConflictError"
      [] s = 429 -> "RateLimitError"
      [] s \in 500..599 -> "ServerError"
      [] OTHER -> "FinWiseAPIError"

\* The call ended on a response with a non-success status.
TerminalFailureResponse ==
    /\ pc = "done"
    /\ EndsWithAttempt
    /\ LastAttempt.status # 0
    /\ ~is_success(response)

\* C11: the correlation identifier exists from before the first attempt
\* and every attempt of the call, first and retries alike, sent it as its
\* Request-Id header: it is never regenerated between attempts.
C11_OneRequestId ==
    /\ pc # "idle" => request_id \in RequestIds
    /\ \A i \in 1..NumAttempts :
           /\ Attempts[i].rid = request_id
           /\ Attempts[i].headers["Request-Id"] = request_id

\* C11 witness: a call of three attempts, retried for different causes,
\* that all carried the identifier of the call.
C11_Witness ==
    /\ pc = "done"
    /\ NumAttempts = 3
    /\ Attempts[1].status = 503
    /\ Attempts[2].exc = "ConnectError"
    /\ \A i \in 1..3 : Attempts[i].headers["Request-Id"] = "uuid-b"

\* C12: every failure the call raises, of whatever kind, has request_id
\* equal to the correlation identifier of the call.
C12_FailureCarriesRequestId ==
    (pc = "done" /\ outcome.kind = "raise") =>
        outcome.exc.request_id = Some(request_id)

\* C13: every ended call, returned or raised, gives its caller the
\* correlation identifier that its attempts sent.
C13_OutcomeCarriesRequestId ==
    pc = "done" => OutcomeRequestId = Some(request_id)

\* C14: raise_for_status raises the failure kind of the status table for
\* every status code, with status_code the given status and response_body
\* the given document, and for a 429 with retry_after the document's
\* retryAfter field.
C14_StatusTable ==
    result.kind = "raise" =>
        /\ result.exc.cls = StatusTable(call.status_code)
        /\ result.exc.status_code = Some(call.status_code)
        /\ result.exc.response_body = Some(call.response_body)
        /\ call.status_code = 429 =>
               result.exc.retry_after = Get(call.response_body, "retryAfter")

\* C14 witness: a 429 with a document that holds retryAfter was classified
\* as RateLimitError with that retry_after.
C14_Witness ==
    /\ result.kind = "raise"
    /\ call.status_code = 429
    /\ call.response_body = Dict([code |-> "E429", retryAfter |-> 7])
    /\ result.exc.cls = "RateLimitError"
    /\ result.exc.retry_after = Some(7)

\* C15: a call that ended on a non-success response whose document is
\* absent, empty or malformed (an array, not JSON) raised the failure kind
\* of the status table, with the default message unless the status is 429.
C15_ClassificationNeverFails ==
    (TerminalFailureResponse
        /\ response.content \in {ContentEmpty, ContentEmptyDict, ContentArray, ContentHtml}) =>
        /\ RaisedClass(StatusTable(response.status_code))
        /\ response.status_code # 429 => outcome.exc.message = "Unknown error"

\* C16: a call that ended on a non-success response whose document has a
\* message and a code raised a failure with that message and that
\* error_code, RateLimitError after exhausted 429 retries included.
C16_MessageAndCodeFromDocument ==
    (TerminalFailureResponse /\ response.content = ContentError) =>
        /\ outcome.kind = "raise"
        /\ outcome.exc.message = "Not found"
        /\ outcome.exc.error_code = Some("E404")

\* C17: RateLimitError, ServerError, FinWiseConnectionError and
\* FinWiseTimeoutError are raised only by the attempt of index max_retries,
\* and an earlier attempt that met a 429, a 5xx, a connection failure or a
\* timeout is followed by a backoff sleep and does not end the call.
C17_TransientSurfacedOnlyAtExhaustion ==
    /\ (pc = "done" /\ outcome.kind = "raise"
           /\ outcome.exc.cls \in {"RateLimitError", "ServerError",
                                   "FinWiseConnectionError", "FinWiseTimeoutError"}) =>
           (NumAttempts > 0 /\ LastAttempt.idx = max_retries)
    /\ \A i \in 1..Len(trace) :
           (IsAttempt(trace[i]) /\ trace[i].idx < max_retries /\ Transient(trace[i])) =>
               /\ i < Len(trace)
               /\ IsSleep(trace[i + 1])
               /\ ~(pc = "done" /\ i + 1 = Len(trace))

\* C18: once close() was called, once or several times, on a client of
\* the transport or of the caller, a call of request ends with an error and
\* makes no network attempt.
C18_ClosedRejects ==
    /\ close_calls >= 1 => client.closed
    /\ (pc = "done" /\ close_calls >= 1) =>
           /\ outcome.kind = "raise"
           /\ trace = <<>>

\* C18 witness: close() was called twice on a transport given a client of
\* the caller, and the request that followed was rejected.
C18_Witness ==
    /\ pc = "done"
    /\ close_calls = 2
    /\ ~client.owned
    /\ outcome = Raise(ClientClosedError)
    /\ trace = <<>>

\* C19: every attempt carries the Authorization credential of the
\* configuration, Content-Type and Accept application/json, a User-Agent
\* and the Request-Id of the call, with a client of the transport and with
\* a client of the caller.
C19_HeadersOnEveryAttempt ==
    \A i \in 1..NumAttempts :
        LET h == Attempts[i].headers
        IN  /\ {"Authorization", "Content-Type", "Accept", "User-Agent", "Request-Id"}
                   \subseteq DOMAIN h
            /\ h["Authorization"] = ApiKey
            /\ h["Content-Type"] = "application/json"
            /\ h["Accept"] = "application/json"
            /\ h["Request-Id"] = request_id

\* The credential a construction is given: the api_key argument, or for
\* FinWise the FINWISE_API_KEY variable when the argument is not given.
Credential ==
    IF call.fn = "FinWise" /\ call.api_key \in {None, Some("")}
        THEN call.env ELSE call.api_key

\* C20: constructing ClientConfig, directly or through FinWise, raises
\* when the credential is empty or absent, when timeout <= 0 or when
\* max_retries < 0; every other construction succeeds and the
\* configuration holds the values as given.
C20_ConfigFailFast ==
    result.kind \in {"config", "raise"} =>
        IF \/ Credential \in {None, Some("")}
           \/ call.timeout <= 0
           \/ call.max_retries < 0
          THEN result.kind = "raise"
          ELSE /\ result.kind = "config"
               /\ result.config.api_key = Credential
               /\ result.config.timeout = call.timeout
               /\ result.config.max_retries = call.max_retries

\* C20 witness: FinWise constructed with the key from the environment and
\* max_retries = 0.
C20_Witness ==
    /\ call.fn = "FinWise"
    /\ call.api_key = None
    /\ call.max_retries = 0
    /\ result.kind = "config"
    /\ result.config.max_retries = 0

\* The sum of a sequence of numbers.
RECURSIVE SumSeq(_)
SumSeq(q) == IF q = <<>> THEN 0 ELSE Head(q) + SumSeq(Tail(q))

\* The seconds slept: a time.sleep call with a negative duration raises
\* and sleeps none.
SecondsSlept == SumSeq([i \in 1..Len(Sleeps) |-> IF Sleeps[i].dur < 0 THEN 0 ELSE Sleeps[i].dur])

\* C24: a response with status >= 500 at an attempt index below
\* max_retries, whatever its body, is followed by one sleep of exactly
\* 2^index seconds and then by the next attempt; it does not end the call
\* and gives no outcome.
C24_ServerErrorRetryFrame ==
    \A i \in 1..Len(trace) :
        (IsAttempt(trace[i]) /\ trace[i].status >= 500 /\ trace[i].idx < max_retries) =>
            /\ i < Len(trace)
            /\ IsSleep(trace[i + 1])
            /\ trace[i + 1].dur = 2 ^ trace[i].idx
            /\ i + 1 = Len(trace) => (pc \in {"sleep", "attempt"} /\ outcome = NoOutcome)
            /\ i + 1 < Len(trace) =>
                   (IsAttempt(trace[i + 2]) /\ trace[i + 2].idx = trace[i].idx + 1)

\* C24 witness: with max_retries = 2, a 503 at index 0 was followed by a
\* sleep of one second and the attempt of index 1, whose 500 with a body
\* that is not JSON was followed by a sleep of two seconds.
C24_Witness ==
    /\ max_retries = 2
    /\ Len(trace) = 4
    /\ IsAttempt(trace[1]) /\ trace[1].status = 503
    /\ IsSleep(trace[2]) /\ trace[2].dur = 1
    /\ IsAttempt(trace[3]) /\ trace[3].idx = 1 /\ trace[3].status = 500
    /\ response.content = ContentHtml
    /\ IsSleep(trace[4]) /\ trace[4].dur = 2
    /\ pc = "sleep"

\* C25: attempts and sleeps alternate in the trace of a call, starting
\* with an attempt; a call that has ended ends with an attempt, so that
\* it made one sleep fewer than attempts.
C25_AttemptsAndSleepsAlternate ==
    /\ \A i \in 1..Len(trace) :
           IF i % 2 = 1 THEN IsAttempt(trace[i]) ELSE IsSleep(trace[i])
    /\ (pc = "done" /\ trace # <<>>) =>
           /\ EndsWithAttempt
           /\ Len(Sleeps) = NumAttempts - 1

\* C26: the seconds slept in a call never exceed 2^max_retries - 1: the
\* sleep after the attempt of index i is exactly 2^i seconds for a 5xx, a
\* connection failure or a timeout and at most 2^i seconds for a 429.
C26_TotalSleepBounded ==
    /\ SecondsSlept <= 2 ^ max_retries - 1
    /\ \A i \in 2..Len(trace) :
           IsSleep(trace[i]) =>
               /\ IsAttempt(trace[i - 1])
               /\ trace[i - 1].status # 429 => trace[i].dur = 2 ^ trace[i - 1].idx
               /\ trace[i - 1].status = 429 => trace[i].dur <= 2 ^ trace[i - 1].idx

\* C26 witness: a call with max_retries = 2 that slept 1 and 2 seconds,
\* the whole bound of 3, after a 429 with hint 10 and a timeout.
C26_Witness ==
    /\ pc = "done"
    /\ max_retries = 2
    /\ NumAttempts = 3
    /\ Attempts[1].status = 429
    /\ Attempts[2].exc = "TimeoutException"
    /\ SleepDurations = <<1, 2>>
    /\ SecondsSlept = 3

\* C27: every duration passed to time.sleep is non-negative, so the
\* sleep never fails and never ends the call.
C27_SleepNonNegative ==
    /\ \A i \in 1..Len(Sleeps) : Sleeps[i].dur >= 0
    /\ (pc = "done" /\ trace # <<>>) => ~IsSleep(trace[Len(trace)])

\* C28: the outcome of a call is that of its last attempt alone: the
\* returned document is the body of the last response; the raised failure
\* has the kind of the status table, the status and the body of the last
\* response; a last attempt that failed to connect or timed out gives
\* FinWiseConnectionError or FinWiseTimeoutError.
C28_OutcomeOfLastAttempt ==
    (pc = "done" /\ NumAttempts > 0) =>
        /\ is_success(response) /\ LastAttempt.status # 0 =>
               outcome = Return(Body(response))
        /\ ~is_success(response) /\ LastAttempt.status # 0 =>
               /\ RaisedClass(StatusTable(LastAttempt.status))
               /\ outcome.exc.status_code = Some(LastAttempt.status)
               /\ outcome.exc.response_body = Some(Body(response))
        /\ LastAttempt.exc = "ConnectError" => RaisedClass("FinWiseConnectionError")
        /\ LastAttempt.exc = "TimeoutException" => RaisedClass("FinWiseTimeoutError")

\* C30: the code after the loop is never reached: a call that sleeps has
\* an iteration left, and no call ends with the re-raised httpx exception
\* or the RuntimeError of lines 162-164.
C30_PostLoopUnreachable ==
    /\ pc = "sleep" => attempt < max_retries
    /\ pc = "done" =>
           /\ outcome # Raise(RawExc("RuntimeError"))
           /\ ~(outcome.kind = "raise" /\ outcome.exc.cls \in {"ConnectError", "TimeoutException"})

\* C30 witness: the iteration of index max_retries = 2 met a timeout after
\* two retried ones and raised FinWiseTimeoutError from inside the loop.
C30_Witness ==
    /\ pc = "done"
    /\ max_retries = 2
    /\ attempt = 2
    /\ AllRaised("TimeoutException")
    /\ outcome = Raise(TimeoutFailure(last_exception))

\* An attribute of a returned object: None when the object has none of
\* that name.
Attr(obj, name) == IF name \in DOMAIN obj THEN Some(obj[name]) ELSE None

\* The transport returned a page: a key-value document whose data items
\* are whole accounts.
ReturnedPage ==
    /\ outcome.kind = "return"
    /\ outcome.value.t = "dict"
    /\ "data" \in DOMAIN outcome.value.v
    /\ \A i \in 1..Len(outcome.value.v.data) : AccountOk(outcome.value.v.data[i])

\* C22: accounts.list takes page_number and page_size, and of a page the
\* transport returned it gives a paginated response: page_number,
\* page_size, total_count, has_next and has_previous are the document's
\* pageNumber, pageSize, totalCount, hasNext and hasPrevious, and its items
\* are the accounts built from the document's data, as many as there are.
C22_AccountsListPaginated ==
    (call.fn = "accounts.list" /\ result # NoResult) =>
        /\ ~(result.kind = "raise" /\ result.cls = "TypeError")
        /\ ReturnedPage =>
               /\ result.kind = "return"
               /\ Attr(result.value, "page_number") = Get(outcome.value, "pageNumber")
               /\ Attr(result.value, "page_size") = Get(outcome.value, "pageSize")
               /\ Attr(result.value, "total_count") = Get(outcome.value, "totalCount")
               /\ Attr(result.value, "has_next") = Get(outcome.value, "hasNext")
               /\ Attr(result.value, "has_previous") = Get(outcome.value, "hasPrevious")
               /\ Len(result.value.data) = Len(outcome.value.v.data)
               /\ \A i \in 1..Len(result.value.data) :
                      result.value.data[i] = Account(outcome.value.v.data[i])

\* The arguments of the operation fail validation: an empty name, a
\* page_number below 1, a page_size outside 1..500.
InvalidArguments ==
    \/ call.fn \in {"accounts.create", "accounts.update"} /\ call.name = Some("")
    \/ /\ call.fn \in {"accounts.list", "transactions.list"}
       /\ \/ call.page_number # None /\ call.page_number[1] < 1
          \/ call.page_size # None /\ (call.page_size[1] < 1 \/ call.page_size[1] > 500)

MethodOf(fn) ==
    CASE fn = "accounts.create" -> "POST"
      [] fn = "accounts.update" -> "PATCH"
      [] fn = "transaction_categories.delete" -> "DELETE"
      [] OTHER -> "GET"

\* C29: every attempt of a call sends the method, path, JSON body and
\* query parameters of the first one, with the method of the operation and
\* the body of a create or update; and whatever the method, a 429, 5xx,
\* connection failure or timeout below the last index is followed by a
\* sleep and does not end the call.
C29_RetriesResendTheRequest ==
    /\ \A i \in 1..NumAttempts :
           /\ Attempts[i].request = Attempts[1].request
           /\ Attempts[i].request.method = MethodOf(call.fn)
           /\ call.fn \in {"accounts.create", "accounts.update"} =>
                  Attempts[i].request.json # None
    /\ NumAttempts <= max_retries + 1
    /\ \A i \in 1..Len(trace) :
           (IsAttempt(trace[i]) /\ trace[i].idx < max_retries /\ Transient(trace[i])) =>
               /\ i < Len(trace)
               /\ IsSleep(trace[i + 1])
               /\ ~(pc = "done" /\ i + 1 = Len(trace))

\* C29 witness: accounts.create with max_retries = 1 sent its POST twice,
\* with the same body, after a 503.
C29_Witness ==
    /\ call.fn = "accounts.create"
    /\ max_retries = 1
    /\ NumAttempts = 2
    /\ Attempts[1].status = 503
    /\ Attempts[2].request = post("/accounts", Some(CreateJson("Savings")), None)
    /\ Attempts[1].request = Attempts[2].request

\* The frames of all threads: that of the running one and the others.
Frames == {Frame} \cup {threads.parked[t] : t \in DOMAIN threads.parked}

\* The wait a call running alone makes after the result e of its attempt
\* of index i: min(hint, 2^i) after a 429, 2^i after the other causes.
AloneWait(e, i) ==
    IF e.status = 429 THEN Min(Hint(ThreadRateLimit), 2 ^ i) ELSE 2 ^ i

\* The call of the frame f went as it would have gone alone with the
\* results its own attempts met: its k-th attempt has index k - 1 and its
\* own Request-Id, it made at most max_retries + 1 attempts, a sleep
\* follows each attempt but the last with the wait of that attempt's own
\* index, and its outcome is that of its own last attempt.
AsAlone(f) ==
    LET A == SelectSeq(f.trace, IsAttempt)
        last == A[Len(A)]
    IN  /\ Len(A) <= max_retries + 1
        /\ f.pc # "idle" => f.request_id \in RequestIds
        /\ \A k \in 1..Len(A) : A[k].idx = k - 1 /\ A[k].rid = f.request_id
        /\ \A i \in 1..Len(f.trace) :
               IF i % 2 = 1
                 THEN IsAttempt(f.trace[i])
                 ELSE /\ IsSleep(f.trace[i])
                      /\ f.trace[i].dur = AloneWait(f.trace[i - 1], i \div 2 - 1)
        /\ f.pc = "attempt" => f.attempt = Len(A)
        /\ f.pc = "sleep" => f.attempt = Len(A) - 1
        /\ f.pc = "done" =>
               /\ Len(A) > 0
               /\ IsAttempt(f.trace[Len(f.trace)])
               /\ (Transient(last) \/ last.exc # "none") => last.idx = max_retries \/ last.exc = "ReadError"
               /\ last.status = 200 => f.outcome = Return(EmptyDict)
               /\ last.status \notin {0, 200} =>
                      /\ f.outcome.kind = "raise"
                      /\ f.outcome.exc.cls = StatusTable(last.status)
                      /\ f.outcome.exc.status_code = Some(last.status)
                      /\ f.outcome.exc.request_id = Some(f.request_id)
               /\ last.exc = "ConnectError" =>
                      /\ f.outcome.kind = "raise"
                      /\ f.outcome.exc.cls = "FinWiseConnectionError"
                      /\ f.outcome.exc.request_id = Some(f.request_id)
                      /\ f.outcome.exc.cause = [type |-> "ConnectError", at |-> Len(A)]
               /\ last.exc = "TimeoutException" =>
                      /\ f.outcome.kind = "raise"
                      /\ f.outcome.exc.cls = "FinWiseTimeoutError"
                      /\ f.outcome.exc.request_id = Some(f.request_id)
                      /\ f.outcome.exc.cause = [type |-> "TimeoutException", at |-> Len(A)]
               /\ last.exc = "ReadError" => f.outcome = Raise(RawExc("ReadError"))

\* C21: in every interleaving of calls running together on one transport
\* each call has its own attempt index, correlation identifier and backoff
\* schedule: its attempts, sleeps and outcome are those it would have had
\* alone with the same attempt results, whatever the other calls met.
C21_CallsDoNotShareRetryState ==
    \A f \in Frames : AsAlone(f)

\* C21 witness: with max_retries = 1 one thread sleeps after the 503 of
\* its first attempt while the other, after a timeout and its sleep of one
\* second, is about to make its second attempt under its own identifier.
C21_Witness ==
    /\ max_retries = 1
    /\ pc = "sleep" /\ attempt = 0
    /\ Len(trace) = 2 /\ trace[1].status = 503
    /\ \E t \in DOMAIN threads.parked :
           /\ threads.parked[t].pc = "attempt"
           /\ threads.parked[t].attempt = 1
           /\ threads.parked[t].trace[1].exc = "TimeoutException"
           /\ threads.parked[t].request_id # request_id

====
